---- MODULE Spec2Model ----
(***************************************************************************)
(* Model of the session control core, src/src/control/mod.rs: the Control  *)
(* struct, startup recovery (deserialize), the poll/dispatch loop (run,    *)
(* handle_event and the per-source handlers), persistence and Drop.        *)
(*                                                                         *)
(* Collaborators whose code lives outside control/mod.rs (Torrent,        *)
(* Throttler, CIO, JobManager, util::id_to_hash) appear only through the   *)
(* calls the core makes on them: each call is recorded in eff, the effects *)
(* of the step just taken, and each result the core branches on is an      *)
(* input carried by the event.                                             *)
(***************************************************************************)
EXTENDS Integers, Sequences, FiniteSets, TLC

VARIABLES
    torrents,       \* Control.torrents : TorrentId -> Torrent (its info hash)
    hash_idx,       \* Control.hash_idx : ContentHash -> TorrentId
    peers,          \* Control.peers    : PeerId -> TorrentId
    tid_cnt,        \* Control.tid_cnt
    throttler,      \* Control.throttler: its two rate caps
    data,           \* Control.data     : ServerData
    tx_rates,       \* Control.tx_rates : Option<(u64, u64)>
    last_tx_rates,  \* Control.last_tx_rates
    pc,             \* position of run()
    pending,        \* events of the polled batch not yet dispatched, in order
    shutdown,       \* the process-wide SHUTDOWN flag
    dir,            \* session directory entries not yet visited by recovery
    syn_data,       \* the syn_data file: <<>> (missing/undecodable) or <<rec>>
    pid_cnt,        \* peer ids handed out so far by the torrents
    ev,             \* the event handled by the step just taken
    eff,            \* calls made on collaborators by the step just taken
    overflow_checks,\* the build panics on integer overflow (else it wraps)
    panicked,       \* an arithmetic overflow has panicked
    removed,        \* history: ids removed by RemoveTorrent
    published,      \* history: rates of the last ServerTransfer update sent
    session,        \* resume files written or deleted since the first start
    runs,           \* processes started before this one on the session directory
    prev,           \* history: the process at its serialize, <<>> before the first
    deserialize_err \* self.deserialize().is_err()

vars == <<torrents, hash_idx, peers, tid_cnt, throttler, data, tx_rates,
          last_tx_rates, pc, pending, shutdown, dir, syn_data, pid_cnt, ev,
          eff, overflow_checks, panicked, removed, published, session, runs,
          prev, deserialize_err>>

tables == <<torrents, hash_idx, peers, tid_cnt>>

-----------------------------------------------------------------------------
(* Bounds of the model *)

\* processes started on the session directory after the first
MaxRuns == 1
\* tid_cnt is a usize; the model stops issuing ids at MaxTid
MaxTid == 2
\* peer ids handed out by torrents are capped at MaxPid
MaxPid == 1
\* largest batch a poll returns
MaxBatch == 1
\* largest number of entries in the session directory at startup
MaxFiles == 2
\* stand-in for u64::MAX: u64 arithmetic is modulo U64_MAX + 1
U64_MAX == 3
\* stand-in for u32::MAX: an `as u32` cast is modulo U32_MAX + 1
U32_MAX == 3

(* Program constants *)

\* [u8; 20], the key of hash_idx
HASH_LEN == 20
\* dir.file_name().len() != 40
NAME_LEN == 40

-----------------------------------------------------------------------------
(* Option<T>: None is the empty sequence, Some(v) the one-element sequence *)

None == <<>>
Some(v) == <<v>>
IsSome(o) == Len(o) = 1
Unwrap(o) == o[1]

(* HashMap operations *)

EmptyMap == <<>>
Insert(m, k, v) == [x \in DOMAIN m \cup {k} |-> IF x = k THEN v ELSE m[x]]
Remove(m, k) == [x \in DOMAIN m \ {k} |-> m[x]]
ContainsKey(m, k) == k \in DOMAIN m
Get(m, k) == IF k \in DOMAIN m THEN Some(m[k]) ELSE None

-----------------------------------------------------------------------------
(* Content hashes and their 40-hex rendering on the RPC surface *)

HexDigits == <<"0", "1", "2", "3", "4", "5", "6", "7",
               "8", "9", "a", "b", "c", "d", "e", "f">>

UpperDigits == <<"A", "B", "C", "D", "E", "F">>

\* value of one hex character, None if it is not one
hex_to_bit(c) ==
    IF \E i \in DOMAIN HexDigits : HexDigits[i] = c
    THEN Some((CHOOSE i \in DOMAIN HexDigits : HexDigits[i] = c) - 1)
    ELSE IF \E i \in DOMAIN UpperDigits : UpperDigits[i] = c
    THEN Some((CHOOSE i \in DOMAIN UpperDigits : UpperDigits[i] = c) + 9)
    ELSE None

\* util::id_to_hash: 40 hex characters to 20 bytes, None on any other string
id_to_hash(s) ==
    IF Len(s) # 2 * HASH_LEN THEN None
    ELSE IF \E i \in 1..Len(s) : ~IsSome(hex_to_bit(s[i])) THEN None
    ELSE Some([i \in 1..HASH_LEN |->
                 16 * Unwrap(hex_to_bit(s[2 * i - 1])) + Unwrap(hex_to_bit(s[2 * i]))])

\* the 40-hex rendering of a hash
hash_to_id(h) ==
    [i \in 1..(2 * Len(h)) |->
        IF i % 2 = 1 THEN HexDigits[(h[(i + 1) \div 2] \div 16) + 1]
        ELSE HexDigits[(h[i \div 2] % 16) + 1]]

\* the hashes torrents of the model carry: 0a0a..0a and abab..ab
HashA == [i \in 1..HASH_LEN |-> 10]
HashB == [i \in 1..HASH_LEN |-> 171]
Hashes == {HashA, HashB}

\* ids an RPC command may carry: valid ones, one too short, one that is
\* not hexadecimal, and an upper-case rendering of HashB
ShortId == SubSeq(hash_to_id(HashA), 1, 2 * HASH_LEN - 1)
NonHexId == [hash_to_id(HashA) EXCEPT ![1] = "g"]
UpperId == [i \in 1..(2 * HASH_LEN) |-> IF i % 2 = 1 THEN "A" ELSE "B"]
Ids == {hash_to_id(h) : h \in Hashes} \cup {ShortId, NonHexId}

\* id_to_hash on the ids of the model
IdHash == [s \in Ids \cup {UpperId} |-> id_to_hash(s)]

\* hash_to_id on the hashes of the model
HashId == [h \in Hashes |-> hash_to_id(h)]

\* Torrent::serialize: the resume blob is written to the file named by the
\* 40-hex rendering of the torrent's hash
torrent_serialize(files, h) == Insert(files, HashId[h], Some(h))

\* Torrent::delete: the torrent's on-disk data goes, its resume file with it
torrent_delete(files, h) == Insert(files, HashId[h], None)

-----------------------------------------------------------------------------
(* Effects of one step: the calls the core makes on its collaborators *)

\* ops: calls on torrents and on the throttler's handles, <<name, tid>>
\* rpc: messages passed to cio.msg_rpc
\* cio: the other calls on CIO (flush_peers, msg_disk, msg_trk, msg_listener)
NoEff == [ops |-> <<>>, rpc |-> <<>>, cio |-> <<>>]
Ops(s) == [ops |-> s, rpc |-> <<>>, cio |-> <<>>]
Rpc(s) == [ops |-> <<>>, rpc |-> s, cio |-> <<>>]

txvars == <<throttler, data, tx_rates, last_tx_rates, published>>

-----------------------------------------------------------------------------
(* Torrent table: add_torrent and the hash-keyed lookups *)

\* add_torrent without its contains_key guard
add_torrent_unchecked(info) ==
    LET tid == tid_cnt IN
    /\ hash_idx' = Insert(hash_idx, info.hash, tid)
    /\ tid_cnt' = tid_cnt + 1
    /\ torrents' = Insert(torrents, tid, [hash |-> info.hash])
    /\ eff' = Ops(<<<<"get_throttle", tid>>, <<"Torrent::new", tid>>>>)
    /\ UNCHANGED peers

\* Control::add_torrent
add_torrent(info) ==
    IF ContainsKey(hash_idx, info.hash)
    THEN /\ UNCHANGED tables
         /\ eff' = NoEff
    ELSE LET tid == tid_cnt IN
         /\ hash_idx' = Insert(hash_idx, info.hash, tid)
         /\ tid_cnt' = tid_cnt + 1
         /\ torrents' = Insert(torrents, tid, [hash |-> info.hash])
         /\ eff' = Ops(<<<<"get_throttle", tid>>, <<"Torrent::new", tid>>>>)
         /\ UNCHANGED peers

\* a lookup that also resolves an id that is a prefix of an indexed hash's hex
lookup_prefix(id) ==
    LET hits == {h \in DOMAIN hash_idx :
                    /\ Len(id) <= 2 * HASH_LEN
                    /\ SubSeq(hash_to_id(h), 1, Len(id)) = id
                    /\ ContainsKey(torrents, hash_idx[h])}
    IN  IF hits = {} THEN None ELSE Some(hash_idx[CHOOSE h \in hits : TRUE])

\* id_to_hash(&id).and_then(|d| hash_idx.get(d)).and_then(|i| torrents.get_mut(i))
lookup(id) ==
    LET d == IdHash[id] IN
    IF ~IsSome(d) THEN None
    ELSE LET i == Get(hash_idx, Unwrap(d)) IN
         IF ~IsSome(i) THEN None
         ELSE IF ContainsKey(torrents, Unwrap(i)) THEN i ELSE None

\* a hash-keyed command that forwards one call to the torrent it resolves
forward(id, op) ==
    /\ UNCHANGED tables
    /\ eff' = IF IsSome(lookup(id)) THEN Ops(<<<<op, Unwrap(lookup(id))>>>>) ELSE NoEff

\* the calls of Validate(ids), one per id that resolves, in the order of ids
RECURSIVE validate_ops(_)
validate_ops(ids) ==
    IF ids = <<>> THEN <<>>
    ELSE (IF IsSome(lookup(Head(ids)))
          THEN <<<<"validate", Unwrap(lookup(Head(ids)))>>>>
          ELSE <<>>) \o validate_ops(Tail(ids))

\* RemoveTorrent that takes the torrent out of torrents and leaves hash_idx
remove_torrent_keeps_index(id) ==
    LET d == IdHash[id]
        i == IF IsSome(d) THEN Get(hash_idx, Unwrap(d)) ELSE None
        t == IF IsSome(i) THEN Get(torrents, Unwrap(i)) ELSE None
    IN  /\ torrents' = IF IsSome(t) THEN Remove(torrents, Unwrap(i)) ELSE torrents
        /\ removed' = IF IsSome(t) THEN removed \cup {Unwrap(i)} ELSE removed
        /\ session' = IF IsSome(t) THEN torrent_delete(session, Unwrap(t).hash)
                      ELSE session
        /\ eff' = IF IsSome(t) THEN Ops(<<<<"delete", Unwrap(i)>>>>) ELSE NoEff
        /\ UNCHANGED <<hash_idx, peers, tid_cnt>>

\* rpc::Message::RemoveTorrent
remove_torrent(id) ==
    LET d == IdHash[id]
        i == IF IsSome(d) THEN Get(hash_idx, Unwrap(d)) ELSE None
        t == IF IsSome(i) THEN Get(torrents, Unwrap(i)) ELSE None
    IN  /\ hash_idx' = IF IsSome(i) THEN Remove(hash_idx, Unwrap(d)) ELSE hash_idx
        /\ torrents' = IF IsSome(t) THEN Remove(torrents, Unwrap(i)) ELSE torrents
        /\ removed' = IF IsSome(t) THEN removed \cup {Unwrap(i)} ELSE removed
        /\ session' = IF IsSome(t) THEN torrent_delete(session, Unwrap(t).hash)
                      ELSE session
        /\ eff' = IF IsSome(t) THEN Ops(<<<<"delete", Unwrap(i)>>>>) ELSE NoEff
        /\ UNCHANGED <<peers, tid_cnt>>

\* rpc::Message::UpdateServer
update_server(req) ==
    LET tu == IF IsSome(req.throttle_up) THEN Unwrap(req.throttle_up)
              ELSE throttler.ul_rate % (U32_MAX + 1)
        td == IF IsSome(req.throttle_down) THEN Unwrap(req.throttle_down)
              ELSE throttler.dl_rate % (U32_MAX + 1)
    IN  /\ throttler' = [ul_rate |-> tu, dl_rate |-> td]
        /\ eff' = Rpc(<<[type |-> "Throttle", id |-> req.id,
                         throttle_up |-> tu, throttle_down |-> td]>>)
        /\ UNCHANGED tables

\* a handle_rpc_ev that ends the loop once it has removed a torrent
handle_rpc_ev_returns_on_remove(req) == req.type = "RemoveTorrent"

\* what handle_rpc_ev returns: `false`, after the match, for every command
handle_rpc_ev_returns(req) == FALSE

\* Control::handle_rpc_ev
handle_rpc_ev(req) ==
    /\ CASE req.type = "UpdateTorrent" -> forward(req.id, "rpc_update")
         [] req.type = "Torrent"       -> add_torrent(req.info)
         [] req.type = "UpdateFile"    -> forward(req.torrent_id, "rpc_update_file")
         [] req.type = "UpdateServer"  -> update_server(req)
         [] req.type = "RemoveTorrent" -> remove_torrent(req.id)
         [] req.type = "Pause"         -> forward(req.id, "pause")
         [] req.type = "Resume"        -> forward(req.id, "resume")
         [] req.type = "Validate"      -> /\ UNCHANGED tables
                                          /\ eff' = Ops(validate_ops(req.ids))
         [] req.type = "RemovePeer"    -> forward(req.torrent_id, "remove_peer")
         [] req.type = "RemoveTracker" -> forward(req.torrent_id, "remove_tracker")
    /\ IF req.type = "RemoveTorrent" THEN TRUE ELSE UNCHANGED <<removed, session>>
    /\ IF req.type = "UpdateServer" THEN TRUE ELSE UNCHANGED throttler
    /\ UNCHANGED <<data, tx_rates, last_tx_rates, published, pid_cnt>>

-----------------------------------------------------------------------------
(* Peers: add_peer, add_inc_peer and the handlers that use them *)

\* Control::add_peer and Control::add_inc_peer, on st = [peers, pid_cnt, ops]:
\* the torrent is asked to take the peer; it answers Some(pid) (accept = TRUE,
\* with a peer id it has never handed out) or None
add_peer(st, id, call, accept) ==
    IF ~ContainsKey(torrents, id) THEN st
    ELSE IF accept
    THEN [peers   |-> Insert(st.peers, st.pid_cnt, id),
          pid_cnt |-> st.pid_cnt + 1,
          ops     |-> Append(st.ops, <<call, id, Some(st.pid_cnt)>>)]
    ELSE [st EXCEPT !.ops = Append(st.ops, <<call, id, None>>)]

\* the loop over r.peers of handle_trk_ev; outcomes[i] tells how the i-th
\* endpoint fared: "unreachable" (PeerConn::new_outgoing failed), "refused"
\* (the torrent returned None) or "accepted"
RECURSIVE add_tracker_peers(_, _, _)
add_tracker_peers(st, id, outcomes) ==
    IF outcomes = <<>> THEN st
    ELSE add_tracker_peers(
            IF Head(outcomes) = "unreachable" THEN st
            ELSE add_peer(st, id, "add_peer", Head(outcomes) = "accepted"),
            id, Tail(outcomes))

Outcomes(n) == [1..n -> {"unreachable", "refused", "accepted"}]

Accepted(outcomes) == Cardinality({i \in DOMAIN outcomes : outcomes[i] = "accepted"})

\* Control::handle_trk_ev, tr = [tid, resp_ok, npeers]
handle_trk_ev(tr) ==
    /\ IF ~ContainsKey(torrents, tr.tid)
       THEN /\ UNCHANGED <<peers, pid_cnt>>
            /\ eff' = NoEff
       ELSE IF ~tr.resp_ok
       THEN /\ UNCHANGED <<peers, pid_cnt>>
            /\ eff' = Ops(<<<<"set_tracker_response", tr.tid>>>>)
       ELSE \E outcomes \in Outcomes(tr.npeers) :
              LET st0 == [peers |-> peers, pid_cnt |-> pid_cnt,
                          ops |-> <<<<"set_tracker_response", tr.tid>>>>]
                  st == add_tracker_peers(st0, tr.tid, outcomes)
              IN  /\ pid_cnt + Accepted(outcomes) <= MaxPid
                  /\ peers' = st.peers
                  /\ pid_cnt' = st.pid_cnt
                  /\ eff' = Ops(Append(st.ops, <<"update_rpc_peers", tr.tid>>))
    /\ UNCHANGED <<torrents, hash_idx, tid_cnt, removed, session, txvars>>

\* Control::handle_disk_ev
handle_disk_ev(resp) ==
    /\ eff' = IF ContainsKey(torrents, resp.tid)
              THEN Ops(<<<<"handle_disk_resp", resp.tid>>>>) ELSE NoEff
    /\ UNCHANGED <<tables, pid_cnt, removed, session, txvars>>

\* Control::handle_lst_ev
handle_lst_ev(msg) ==
    /\ IF ContainsKey(hash_idx, msg.hash)
       THEN \E accept \in BOOLEAN :
              LET st0 == [peers |-> peers, pid_cnt |-> pid_cnt, ops |-> <<>>]
                  st == add_peer(st0, hash_idx[msg.hash], "add_inc_peer", accept)
              IN  /\ accept => pid_cnt < MaxPid
                  /\ peers' = st.peers
                  /\ pid_cnt' = st.pid_cnt
                  /\ eff' = Ops(st.ops)
       ELSE /\ UNCHANGED <<peers, pid_cnt>>
            /\ eff' = NoEff
    /\ UNCHANGED <<torrents, hash_idx, tid_cnt, removed, session, txvars>>

\* Torrent::peer_ev(peer, ev).is_err(): an event that is itself an error is
\* reported as a failure of the peer, a message may or may not be
peer_ev_is_err(ok) == IF ok THEN BOOLEAN ELSE {TRUE}

\* Control::handle_peer_ev, e = [peer, ok]
handle_peer_ev(e) ==
    /\ LET peer == e.peer IN
       IF ContainsKey(peers, peer) /\ ContainsKey(torrents, peers[peer])
       THEN \E failed \in peer_ev_is_err(e.ok) :
              IF failed
              THEN /\ peers' = Remove(peers, peer)
                   /\ eff' = Ops(<<<<"peer_ev", peers[peer], "Err">>,
                                   <<"update_rpc_peers", peers[peer]>>>>)
              ELSE /\ UNCHANGED peers
                   /\ eff' = Ops(<<<<"peer_ev", peers[peer], "Ok">>>>)
       ELSE /\ UNCHANGED peers
            /\ eff' = NoEff
    /\ UNCHANGED <<torrents, hash_idx, tid_cnt, pid_cnt, removed, session, txvars>>

-----------------------------------------------------------------------------
(* Timers: throttler refresh, throttler flush, job timer *)

\* the three timers; CIO hands out distinct ids
ThrottlerId == "throttler.id"
ThrottlerFid == "throttler.fid"
JobTimer == "job_timer"
UnknownTimer == "unknown"

\* rates and byte counts Throttler::update may report
Rates == {0, 1}
Bytes == {0, 1, U64_MAX}

\* what a += on u64 leaves behind: the sum when it fits; when it does not, the
\* wrapped sum in a build without overflow checks, and a panic in one with
Fits(a, b) == a + b <= U64_MAX
WrappingAdd(a, b) == (a + b) % (U64_MAX + 1)

\* the four accumulations of the refresh arm, in program order; a panic leaves
\* the fields after the overflowing one untouched
accumulate(d, ul, dl, checks) ==
    IF checks /\ ~Fits(d.ul, ul) THEN [d |-> d, panic |-> TRUE]
    ELSE LET d1 == [d EXCEPT !.ul = WrappingAdd(d.ul, ul)] IN
    IF checks /\ ~Fits(d1.dl, dl) THEN [d |-> d1, panic |-> TRUE]
    ELSE LET d2 == [d1 EXCEPT !.dl = WrappingAdd(d1.dl, dl)] IN
    IF checks /\ ~Fits(d2.session_ul, ul) THEN [d |-> d2, panic |-> TRUE]
    ELSE LET d3 == [d2 EXCEPT !.session_ul = WrappingAdd(d2.session_ul, ul)] IN
    IF checks /\ ~Fits(d3.session_dl, dl) THEN [d |-> d3, panic |-> TRUE]
    ELSE [d |-> [d3 EXCEPT !.session_dl = WrappingAdd(d3.session_dl, dl)],
          panic |-> FALSE]

\* Timer arm, t == self.throttler.id(); upd is what throttler.update() returned
throttler_refresh(upd) ==
    IF IsSome(upd)
    THEN LET u == Unwrap(upd)
             r == accumulate(data, u.ul, u.dl, overflow_checks) IN
         /\ tx_rates' = Some(<<u.ulr, u.dlr>>)
         /\ data' = r.d
         /\ panicked' = r.panic
    ELSE UNCHANGED <<tx_rates, data, panicked>>

\* Control::flush_blocked_peers
flush_blocked_peers ==
    eff' = [ops |-> <<<<"flush_dl">>, <<"flush_ul">>>>, rpc |-> <<>>,
            cio |-> <<"flush_peers", "flush_peers">>]

\* Control::update_jobs: JobManager::update runs the due jobs on the torrents
update_jobs == <<<<"jobs.update">>>>

\* update_rpc_tx that suppresses the update when either direction is unchanged
update_rpc_tx_either(jobs_ops) ==
    IF IsSome(tx_rates)
    THEN LET rate_up == Unwrap(tx_rates)[1]
             rate_down == Unwrap(tx_rates)[2] IN
         /\ tx_rates' = None
         /\ IF rate_up = last_tx_rates[1] \/ rate_down = last_tx_rates[2]
            THEN /\ UNCHANGED <<last_tx_rates, published>>
                 /\ eff' = Ops(jobs_ops)
            ELSE /\ last_tx_rates' = <<rate_up, rate_down>>
                 /\ published' = Some(<<rate_up, rate_down>>)
                 /\ eff' = [ops |-> jobs_ops, cio |-> <<>>,
                            rpc |-> <<[type |-> "ServerTransfer",
                                       id |-> data.id,
                                       rate_up |-> rate_up,
                                       rate_down |-> rate_down,
                                       transferred_up |-> data.ul,
                                       transferred_down |-> data.dl,
                                       ses_transferred_up |-> data.session_ul,
                                       ses_transferred_down |-> data.session_dl]>>]
    ELSE /\ UNCHANGED <<tx_rates, last_tx_rates, published>>
         /\ eff' = Ops(jobs_ops)

\* Control::update_rpc_tx
update_rpc_tx(jobs_ops) ==
    IF IsSome(tx_rates)
    THEN LET rate_up == Unwrap(tx_rates)[1]
             rate_down == Unwrap(tx_rates)[2] IN
         /\ tx_rates' = None
         /\ IF rate_up = last_tx_rates[1] /\ rate_down = last_tx_rates[2]
            THEN /\ UNCHANGED <<last_tx_rates, published>>
                 /\ eff' = Ops(jobs_ops)
            ELSE /\ last_tx_rates' = <<rate_up, rate_down>>
                 /\ published' = Some(<<rate_up, rate_down>>)
                 /\ eff' = [ops |-> jobs_ops, cio |-> <<>>,
                            rpc |-> <<[type |-> "ServerTransfer",
                                       id |-> data.id,
                                       rate_up |-> rate_up,
                                       rate_down |-> rate_down,
                                       transferred_up |-> data.ul,
                                       transferred_down |-> data.dl,
                                       ses_transferred_up |-> data.session_ul,
                                       ses_transferred_down |-> data.session_dl]>>]
    ELSE /\ UNCHANGED <<tx_rates, last_tx_rates, published>>
         /\ eff' = Ops(jobs_ops)

Updates == {None} \cup
    {Some([ulr |-> a, ul |-> b, dlr |-> c, dl |-> d]) :
        a \in Rates, b \in Bytes, c \in Rates, d \in Bytes}

\* handle_event, the cio::Event::Timer(t) arm; updates is what
\* throttler.update() can return when the timer fires
handle_timer(t, updates) ==
    /\ CASE t = ThrottlerId ->
              /\ \E upd \in updates : throttler_refresh(upd)
              /\ eff' = Ops(<<<<"throttler.update">>>>)
              /\ UNCHANGED <<last_tx_rates, published>>
         [] t = ThrottlerFid ->
              /\ flush_blocked_peers
              /\ UNCHANGED <<data, tx_rates, last_tx_rates, published, panicked>>
         [] t = JobTimer ->
              /\ update_rpc_tx(update_jobs)
              /\ UNCHANGED <<data, panicked>>
         [] OTHER ->
              /\ eff' = NoEff
              /\ UNCHANGED <<data, tx_rates, last_tx_rates, published, panicked>>
    /\ UNCHANGED <<tables, pid_cnt, removed, session, throttler>>

-----------------------------------------------------------------------------
(* The session directory and startup recovery *)

\* ServerData as persisted: session_ul and session_dl are #[serde(skip)]
Persisted(d) == [id |-> d.id, ul |-> d.ul, dl |-> d.dl]

\* #[derive(Default)] for ServerData
DefaultData == [id |-> "", ul |-> 0, dl |-> 0, session_ul |-> 0, session_dl |-> 0]

\* ids random_string can give a fresh ServerData in the n-th process on the
\* directory (15 random characters: no two processes draw the same), and the
\* id of a run before the first of the model
FreshIds(n) == {"v-fresh-" \o ToString(n)}
OldId == "v-old"

\* ServerData::new
NewData(id) == [id |-> id, ul |-> 0, dl |-> 0, session_ul |-> 0, session_dl |-> 0]

\* a decoder that reads the two counters in the other order
Loaded_counters_swapped(rec) ==
    [id |-> rec.id, ul |-> rec.dl, dl |-> rec.ul, session_ul |-> 0, session_dl |-> 0]

\* bincode::deserialize_from for ServerData: the skipped fields take their default
Loaded(rec) == [id |-> rec.id, ul |-> rec.ul, dl |-> rec.dl,
                session_ul |-> 0, session_dl |-> 0]

\* names of directory entries: the hex of a hash, another name of 40
\* characters, and syn_data itself
OtherName == [i \in 1..NAME_LEN |-> "x"]
SynDataName == <<"s", "y", "n", "_", "d", "a", "t", "a">>
Names == {hash_to_id(h) : h \in Hashes} \cup {OtherName, SynDataName}

\* a directory entry: read_dir failed on it (err), or a file that cannot be
\* read, or one whose bytes Torrent::deserialize rejects (parsed = None) or
\* turns into a torrent with the given info hash
ErrEntry == [err |-> TRUE]
File(n, r, p) == [err |-> FALSE, name |-> n, readable |-> r, parsed |-> p]
Files == {File(n, FALSE, None) : n \in Names} \cup
         {File(n, TRUE, p) : n \in Names, p \in {None} \cup {Some(h) : h \in Hashes}}
Entries == {ErrEntry} \cup Files

\* the directories recovery may find: at most MaxFiles entries, names distinct
Dirs == {d \in SUBSET Entries :
            /\ Cardinality(d) <= MaxFiles
            /\ \A a, b \in d \ {ErrEntry} : a.name = b.name => a = b}

\* Control::deserialize, up to the loop over the directory
deserialize ==
    /\ pc = "Loading"
    /\ IF IsSome(syn_data)
       THEN data' = Loaded(Unwrap(syn_data))
       ELSE \E id \in FreshIds(runs) : data' = NewData(id)
    /\ \E read_dir_ok \in BOOLEAN :
         /\ dir' = IF read_dir_ok THEN dir ELSE {}
         /\ deserialize_err' = ~read_dir_ok
    /\ pc' = "LoadingDir"
    /\ eff' = NoEff
    /\ ev' = [kind |-> "deserialize"]
    /\ UNCHANGED <<tables, throttler, tx_rates, last_tx_rates, pending, shutdown,
                   syn_data, prev, pid_cnt, overflow_checks, runs, panicked, removed, session, published>>

\* deserialize_torrent that does not advance tid_cnt
deserialize_torrent_same_id(entry) ==
    IF entry.err THEN UNCHANGED tables /\ eff' = NoEff
    ELSE IF Len(entry.name) # NAME_LEN THEN UNCHANGED tables /\ eff' = NoEff
    ELSE IF ~entry.readable THEN UNCHANGED tables /\ eff' = NoEff
    ELSE LET tid == tid_cnt IN
         IF IsSome(entry.parsed)
         THEN /\ hash_idx' = Insert(hash_idx, Unwrap(entry.parsed), tid)
              /\ torrents' = Insert(torrents, tid, [hash |-> Unwrap(entry.parsed)])
              /\ eff' = Ops(<<<<"get_throttle", tid>>, <<"Torrent::deserialize", tid>>>>)
              /\ UNCHANGED <<peers, tid_cnt>>
         ELSE /\ UNCHANGED tables
              /\ eff' = Ops(<<<<"get_throttle", tid>>>>)

\* deserialize_torrent that advances tid_cnt before the blob is parsed
deserialize_torrent_takes_id_first(entry) ==
    IF entry.err THEN UNCHANGED tables /\ eff' = NoEff
    ELSE IF Len(entry.name) # NAME_LEN THEN UNCHANGED tables /\ eff' = NoEff
    ELSE IF ~entry.readable THEN UNCHANGED tables /\ eff' = NoEff
    ELSE LET tid == tid_cnt IN
         IF IsSome(entry.parsed)
         THEN /\ hash_idx' = Insert(hash_idx, Unwrap(entry.parsed), tid)
              /\ tid_cnt' = tid_cnt + 1
              /\ torrents' = Insert(torrents, tid, [hash |-> Unwrap(entry.parsed)])
              /\ eff' = Ops(<<<<"get_throttle", tid>>, <<"Torrent::deserialize", tid>>>>)
              /\ UNCHANGED peers
         ELSE /\ tid_cnt' = tid_cnt + 1
              /\ eff' = Ops(<<<<"get_throttle", tid>>>>)
              /\ UNCHANGED <<torrents, hash_idx, peers>>

\* Control::deserialize_torrent on one entry
deserialize_torrent(entry) ==
    IF entry.err THEN UNCHANGED tables /\ eff' = NoEff
    ELSE IF Len(entry.name) # NAME_LEN THEN UNCHANGED tables /\ eff' = NoEff
    ELSE IF ~entry.readable THEN UNCHANGED tables /\ eff' = NoEff
    ELSE LET tid == tid_cnt IN
         IF IsSome(entry.parsed)
         THEN /\ hash_idx' = Insert(hash_idx, Unwrap(entry.parsed), tid)
              /\ tid_cnt' = tid_cnt + 1
              /\ torrents' = Insert(torrents, tid, [hash |-> Unwrap(entry.parsed)])
              /\ eff' = Ops(<<<<"get_throttle", tid>>, <<"Torrent::deserialize", tid>>>>)
              /\ UNCHANGED peers
         ELSE /\ UNCHANGED tables
              /\ eff' = Ops(<<<<"get_throttle", tid>>>>)

\* one turn of the loop `for entry in fs::read_dir(sd)?`
DeserializeEntry ==
    /\ pc = "LoadingDir"
    /\ tid_cnt < MaxTid
    /\ \E entry \in dir :
         /\ deserialize_torrent(entry)
         /\ dir' = dir \ {entry}
         /\ ev' = [kind |-> "deserialize_torrent", entry |-> entry]
    /\ UNCHANGED <<throttler, data, tx_rates, last_tx_rates, pc, pending, shutdown,
                   syn_data, prev, pid_cnt, overflow_checks, runs, deserialize_err, panicked, removed, session, published>>

\* Control::send_rpc_info
send_rpc_info ==
    eff' = Rpc(<<[type |-> "Extant", id |-> data.id,
                  rate_up |-> 0, rate_down |-> 0,
                  throttle_up |-> 0, throttle_down |-> 0,
                  transferred_up |-> data.ul, transferred_down |-> data.dl,
                  ses_transferred_up |-> data.session_ul,
                  ses_transferred_down |-> data.session_dl]>>)

\* run(): recovery is over, the server is announced, the loop is entered
StartRunning ==
    /\ pc = "LoadingDir"
    /\ dir = {}
    /\ send_rpc_info
    /\ pc' = "Poll"
    /\ ev' = [kind |-> "send_rpc_info"]
    /\ UNCHANGED <<tables, throttler, data, tx_rates, last_tx_rates, pending,
                   shutdown, dir, syn_data, prev, pid_cnt, overflow_checks, runs, deserialize_err, panicked,
                   removed, session, published>>

-----------------------------------------------------------------------------
(* Events and the loop of run() *)

\* torrent ids an event may name: those the model can issue
Tids == 0..(MaxTid - 1)
Pids == 0..(MaxPid - 1)
\* most endpoints in one tracker response
MaxTrackerPeers == 1

TrackerEvents ==
    {[kind |-> "Tracker", ok |-> FALSE]} \cup
    {[kind |-> "Tracker", ok |-> TRUE, tid |-> t, resp_ok |-> FALSE, npeers |-> 0] :
        t \in Tids} \cup
    {[kind |-> "Tracker", ok |-> TRUE, tid |-> t, resp_ok |-> TRUE, npeers |-> n] :
        t \in Tids, n \in 0..MaxTrackerPeers}

DiskEvents ==
    {[kind |-> "Disk", ok |-> FALSE]} \cup
    {[kind |-> "Disk", ok |-> TRUE, tid |-> t] : t \in Tids}

ListenerEvents ==
    {[kind |-> "Listener", ok |-> FALSE]} \cup
    {[kind |-> "Listener", ok |-> TRUE, hash |-> h] : h \in Hashes}

PeerEvents == {[kind |-> "Peer", peer |-> p, ok |-> b] : p \in Pids, b \in BOOLEAN}

TimerEvents ==
    {[kind |-> "Timer", t |-> t, update |-> Updates] :
        t \in {ThrottlerId, ThrottlerFid, JobTimer, UnknownTimer}}

\* the commands that resolve a torrent through one 40-hex id
HashKeyed == {"UpdateTorrent", "RemoveTorrent", "Pause", "Resume"}
HashKeyedBy == {"UpdateFile", "RemovePeer", "RemoveTracker"}

TableMessages ==
    {[type |-> "Torrent", info |-> [hash |-> h]] : h \in Hashes} \cup
    {[type |-> c, id |-> i] : c \in HashKeyed, i \in Ids} \cup
    {[type |-> c, torrent_id |-> i] : c \in HashKeyedBy, i \in Ids} \cup
    {[type |-> "Validate", ids |-> l] :
        l \in {<<>>} \cup {<<i>> : i \in Ids} \cup
              {<<hash_to_id(HashA), hash_to_id(HashB)>>, <<ShortId, hash_to_id(HashA)>>}}

ThrottleValues == 0..U32_MAX
ServerMessages ==
    {[type |-> "UpdateServer", id |-> OldId, throttle_up |-> u, throttle_down |-> d] :
        u, d \in {None} \cup {Some(v) : v \in ThrottleValues}}

RpcEvents(msgs) ==
    {[kind |-> "RPC", ok |-> FALSE]} \cup {[kind |-> "RPC", ok |-> TRUE, msg |-> m] : m \in msgs}

\* a run() that reads the shutdown flag after every event
Dispatched_reads_flag(e, terminal) ==
    /\ pc = "Dispatch"
    /\ pending # <<>>
    /\ ev' = e
    /\ pending' = Tail(pending)
    /\ pc' = IF terminal \/ shutdown THEN "Draining"
             ELSE IF panicked' THEN "Panicked" ELSE "Dispatch"
    /\ UNCHANGED <<shutdown, dir, syn_data, prev, overflow_checks, runs, deserialize_err>>

\* a run() that treats the terminal signal as a shutdown request, honoured
\* once the batch is drained
Dispatched_defers_terminal(e, terminal) ==
    /\ pc = "Dispatch"
    /\ pending # <<>>
    /\ ev' = e
    /\ pending' = Tail(pending)
    /\ pc' = IF panicked' THEN "Panicked" ELSE "Dispatch"
    /\ shutdown' = (shutdown \/ terminal)
    /\ UNCHANGED <<dir, syn_data, prev, overflow_checks, runs, deserialize_err>>

\* the position of run() after handle_event(e) has returned `terminal`: the
\* event has left the batch; after a terminal one the rest is never dispatched
Dispatched(e, terminal) ==
    /\ pc = "Dispatch"
    /\ pending # <<>>
    /\ ev' = e
    /\ pending' = Tail(pending)
    /\ pc' = IF terminal THEN "Draining"
             ELSE IF panicked' THEN "Panicked" ELSE "Dispatch"
    /\ UNCHANGED <<shutdown, dir, syn_data, prev, overflow_checks, runs, deserialize_err>>

\* an arm of handle_event that only logs
log_only ==
    /\ eff' = NoEff
    /\ UNCHANGED <<tables, pid_cnt, removed, session, txvars, panicked>>

\* whether handling e would issue a torrent id
Issues(e) ==
    /\ e.kind = "RPC" /\ e.ok
    /\ e.msg.type = "Torrent"
    /\ ~ContainsKey(hash_idx, e.msg.info.hash)

\* a handle_event that returns true from every error arm
handle_event_returns_any_err(e) ==
    IF e.kind = "RPC" THEN (IF e.ok THEN handle_rpc_ev_returns(e.msg) ELSE TRUE)
    ELSE e.kind \in {"Tracker", "Disk", "Listener"} /\ ~e.ok

\* what handle_event returns: the result of handle_rpc_ev for a command, true
\* for RPC(Err), and false after every other arm
handle_event_returns(e) ==
    IF e.kind = "RPC" THEN (IF e.ok THEN handle_rpc_ev_returns(e.msg) ELSE TRUE)
    ELSE FALSE

\* Control::handle_event; run() goes on as Dispatched tells
handle_event(e) ==
    CASE e.kind = "Tracker" ->
           /\ IF e.ok THEN handle_trk_ev(e) /\ UNCHANGED panicked ELSE log_only
           /\ Dispatched(e, handle_event_returns(e))
      [] e.kind = "Disk" ->
           /\ IF e.ok THEN handle_disk_ev(e) /\ UNCHANGED panicked ELSE log_only
           /\ Dispatched(e, handle_event_returns(e))
      [] e.kind = "RPC" ->
           /\ IF e.ok THEN handle_rpc_ev(e.msg) /\ UNCHANGED panicked ELSE log_only
           /\ Dispatched(e, handle_event_returns(e))
      [] e.kind = "Listener" ->
           /\ IF e.ok THEN handle_lst_ev(e) /\ UNCHANGED panicked ELSE log_only
           /\ Dispatched(e, handle_event_returns(e))
      [] e.kind = "Timer" ->
           /\ handle_timer(e.t, e.update)
           /\ Dispatched(e, handle_event_returns(e))
      [] e.kind = "Peer" ->
           /\ handle_peer_ev(e) /\ UNCHANGED panicked
           /\ Dispatched(e, handle_event_returns(e))

\* a place in a batch whose event is drawn when it is dispatched
Later == [kind |-> "any"]

\* the batches of at most n events, the events drawn as they are dispatched
Unknown(n) == {[i \in 1..k |-> Later] : k \in 0..n}

\* the batches of at most n events of the given set, drawn by the poll
RECURSIVE Batches(_, _)
Batches(events, n) ==
    IF n = 0 THEN {<<>>}
    ELSE Batches(events, n - 1) \cup
         {Append(b, e) : b \in {x \in Batches(events, n - 1) : Len(x) = n - 1},
                         e \in events}

\* cio.poll(&mut events): the batch may be empty (the poll's deadline expired)
PollFrom(batches) ==
    /\ pc = "Poll"
    /\ \E b \in batches : pending' = b
    /\ pc' = "Dispatch"
    /\ ev' = [kind |-> "poll"]
    /\ eff' = NoEff
    /\ UNCHANGED <<tables, txvars, shutdown, dir, syn_data, prev, pid_cnt,
                   overflow_checks, runs, deserialize_err, panicked, removed, session>>

\* a poll whose events are drawn as they are dispatched
Poll == PollFrom(Unknown(MaxBatch))

\* a run() that breaks out of the loop on the flag without serializing
CheckShutdown_breaks ==
    /\ pc = "Dispatch"
    /\ pending = <<>>
    /\ pc' = IF shutdown THEN "Returned" ELSE "Poll"
    /\ ev' = [kind |-> "check_shutdown"]
    /\ eff' = NoEff
    /\ UNCHANGED <<tables, txvars, pending, shutdown, dir, syn_data, prev, pid_cnt,
                   overflow_checks, runs, deserialize_err, panicked, removed, session>>

\* the batch is drained: SHUTDOWN.load(SeqCst)
CheckShutdown ==
    /\ pc = "Dispatch"
    /\ pending = <<>>
    /\ pc' = IF shutdown THEN "Draining" ELSE "Poll"
    /\ ev' = [kind |-> "check_shutdown"]
    /\ eff' = NoEff
    /\ UNCHANGED <<tables, txvars, pending, shutdown, dir, syn_data, prev, pid_cnt,
                   overflow_checks, runs, deserialize_err, panicked, removed, session>>

\* the signal handler sets SHUTDOWN, at any moment
SetShutdown ==
    /\ ~shutdown
    /\ pc \notin {"Returned", "Terminated", "Panicked"}
    /\ shutdown' = TRUE
    /\ UNCHANGED <<tables, txvars, pc, pending, dir, syn_data, prev, pid_cnt, ev, eff,
                   overflow_checks, runs, deserialize_err, panicked, removed, session>>

\* the orders in which HashMap::values_mut may visit the torrents
Orders(S) == {o \in [1..Cardinality(S) -> S] : \A i, j \in DOMAIN o : o[i] = o[j] => i = j}

\* a loop over the torrents that stops after the first
serialize_torrents_first_only(files, hs) ==
    IF hs = <<>> THEN files ELSE torrent_serialize(files, Head(hs))

\* `for torrent in self.torrents.values_mut() { torrent.serialize() }`, on the
\* hashes of the torrents in the order visited
RECURSIVE serialize_torrents(_, _)
serialize_torrents(files, hs) ==
    IF hs = <<>> THEN files
    ELSE serialize_torrents(torrent_serialize(files, Head(hs)), Tail(hs))

\* Control::serialize: syn_data is written, or File::create fails and the old
\* file stays, or the write fails after create truncated it; then every
\* torrent is asked to serialize
serialize ==
    /\ pc = "Draining"
    /\ \E outcome \in {"written", "create failed", "write failed"} :
         /\ syn_data' = CASE outcome = "written" -> Some(Persisted(data))
                       [] outcome = "create failed" -> syn_data
                       [] outcome = "write failed" -> None
         /\ prev' = Some([hashes |-> {torrents[i].hash : i \in DOMAIN torrents},
                           data |-> Persisted(data), written |-> outcome = "written",
                           deserialize_err |-> deserialize_err])
    /\ \E o \in Orders(DOMAIN torrents) :
         /\ eff' = Ops(<<<<"File::create", "syn_data">>>> \o
                       [i \in DOMAIN o |-> <<"serialize", o[i]>>])
         /\ session' = serialize_torrents(session, [i \in DOMAIN o |-> torrents[o[i]].hash])
    /\ pc' = "Returned"
    /\ ev' = [kind |-> "serialize"]
    /\ UNCHANGED <<tables, txvars, pending, shutdown, dir, pid_cnt,
                   overflow_checks, runs, deserialize_err, panicked, removed>>

\* a Drop that leaves the listener running
drop_without_listener ==
    /\ pc = "Returned"
    /\ eff' = [ops |-> <<>>, rpc |-> <<[type |-> "Shutdown"]>>,
               cio |-> <<"msg_disk(shutdown)", "msg_rpc(Shutdown)",
                         "msg_trk(Shutdown)">>]
    /\ pc' = "Terminated"
    /\ ev' = [kind |-> "drop"]
    /\ UNCHANGED <<tables, txvars, pending, shutdown, dir, syn_data, prev, pid_cnt,
                   overflow_checks, runs, deserialize_err, panicked, removed, session>>

\* Drop for Control
drop ==
    /\ pc = "Returned"
    /\ eff' = [ops |-> <<>>, rpc |-> <<[type |-> "Shutdown"]>>,
               cio |-> <<"msg_disk(shutdown)", "msg_rpc(Shutdown)",
                         "msg_trk(Shutdown)", "msg_listener(Shutdown)">>]
    /\ pc' = "Terminated"
    /\ ev' = [kind |-> "drop"]
    /\ UNCHANGED <<tables, txvars, pending, shutdown, dir, syn_data, prev, pid_cnt,
                   overflow_checks, runs, deserialize_err, panicked, removed, session>>

-----------------------------------------------------------------------------
(* Specifications *)

\* Control::new, with the session directory, the syn_data file, the build and
\* the configured rate caps drawn from the given sets
InitWith(dirs, files, builds, caps) ==
    /\ torrents = EmptyMap
    /\ hash_idx = EmptyMap
    /\ peers = EmptyMap
    /\ tid_cnt = 0
    /\ throttler \in {[ul_rate |-> u, dl_rate |-> d] : u, d \in caps}
    /\ data = DefaultData
    /\ tx_rates = None
    /\ last_tx_rates = <<0, 0>>
    /\ pc = "Loading"
    /\ pending = <<>>
    /\ shutdown = FALSE
    /\ dir \in dirs
    /\ syn_data \in files
    /\ pid_cnt = 0
    /\ ev = [kind |-> "new"]
    /\ eff = NoEff
    /\ overflow_checks \in builds
    /\ panicked = FALSE
    /\ removed = {}
    /\ published = None
    /\ session = EmptyMap
    /\ runs = 0
    /\ prev = None
    /\ deserialize_err = FALSE

\* the events of a run in which the torrent table and the peer index change:
\* every source but the timers, every command but UpdateServer
TableEvents ==
    TrackerEvents \cup DiskEvents \cup ListenerEvents \cup PeerEvents \cup
    RpcEvents(TableMessages)

\* `for event in events.drain(..)`: the first event left of the batch is handled
Dispatch(events) ==
    /\ pc = "Dispatch"
    /\ pending # <<>>
    /\ \E e \in events :
        /\ Head(pending) \in {Later, e}
        /\ Issues(e) => tid_cnt < MaxTid
        /\ handle_event(e)

Lifecycle == deserialize \/ DeserializeEntry \/ StartRunning \/ Poll
             \/ CheckShutdown \/ SetShutdown \/ serialize \/ drop

\* the runs in which the tables change: every session directory, no syn_data
\* file, a build that wraps
Init == InitWith(Dirs, {None}, {FALSE}, {0})

DispatchTable == Dispatch(TableEvents)

Next == Lifecycle \/ DispatchTable

Spec == Init /\ [][Next]_vars

\* the runs in which the transfer counters and the rates change: timer events
\* only, with no syn_data file or one whose counters are each at an end of the
\* u64 range, in both kinds of build
InitTx ==
    InitWith({{File(hash_to_id(HashA), TRUE, Some(HashA))}},
             {None} \cup {Some([id |-> OldId, ul |-> u, dl |-> d]) : u, d \in {0, U64_MAX}},
             BOOLEAN, {0})

DispatchTimer == Dispatch(TimerEvents)

NextTx == Lifecycle \/ DispatchTimer

SpecTx == InitTx /\ [][NextTx]_vars

\* the session directory of a server that was shut down with one torrent
OneTorrentDir == {File(HashId[HashA], TRUE, Some(HashA))}

\* the runs in which the loop and its batches are followed: a batch is drawn
\* whole by the poll, from the error event of each source, a timer nobody
\* registered, and three events that reach a torrent
RunEvents ==
    {[kind |-> k, ok |-> FALSE] : k \in {"Tracker", "Disk", "RPC", "Listener"}} \cup
    {[kind |-> "Timer", t |-> UnknownTimer, update |-> Updates],
     [kind |-> "Disk", ok |-> TRUE, tid |-> 0],
     [kind |-> "RPC", ok |-> TRUE, msg |-> [type |-> "Torrent", info |-> [hash |-> HashB]]],
     [kind |-> "RPC", ok |-> TRUE, msg |-> [type |-> "RemoveTorrent", id |-> HashId[HashA]]]}

\* a batch of the loop specification holds one event more than MaxBatch
LongBatch == MaxBatch + 1

RunBatches == Batches(RunEvents, LongBatch)

InitRun == InitWith({OneTorrentDir}, {None}, {FALSE}, {0})

PollRun == PollFrom(RunBatches)

DispatchRun == Dispatch(RunEvents)

\* the steps of the program: everything but the signal handler
StepRun == deserialize \/ DeserializeEntry \/ StartRunning \/ PollRun
           \/ DispatchRun \/ CheckShutdown \/ serialize \/ drop

NextRun == StepRun \/ SetShutdown

\* the thread of run() is scheduled, every poll returns, and the owner drops
\* the Control once run() has returned
SpecRun == InitRun /\ [][NextRun]_vars /\ WF_vars(StepRun)

\* the session directory as the next process finds it: the entries the first
\* process found, less the resume files deleted since, with the resume files
\* written since
Reopened(first, files) ==
    {e \in first : e.err \/ e.name \notin DOMAIN files} \cup
    {File(n, TRUE, files[n]) : n \in {m \in DOMAIN files : IsSome(files[m])}}

\* the daemon is started again on the same session directory: Control::new
\* in a new process, with the configured cap for both directions
Restart(first, cap) ==
    /\ pc = "Terminated"
    /\ runs < MaxRuns
    /\ runs' = runs + 1
    /\ torrents' = EmptyMap
    /\ hash_idx' = EmptyMap
    /\ peers' = EmptyMap
    /\ tid_cnt' = 0
    /\ throttler' = [ul_rate |-> cap, dl_rate |-> cap]
    /\ data' = DefaultData
    /\ tx_rates' = None
    /\ last_tx_rates' = <<0, 0>>
    /\ pc' = "Loading"
    /\ pending' = <<>>
    /\ shutdown' = FALSE
    /\ dir' = Reopened(first, session)
    /\ pid_cnt' = 0
    /\ ev' = [kind |-> "new"]
    /\ eff' = NoEff
    /\ panicked' = FALSE
    /\ removed' = {}
    /\ published' = None
    /\ deserialize_err' = FALSE
    /\ UNCHANGED <<syn_data, session, prev, overflow_checks>>

RestartOne == Restart(OneTorrentDir, 0)

\* the runs in which torrents are added and removed and the daemon is shut
\* down and started again on what it left in the session directory
RestartEvents ==
    RpcEvents({[type |-> "Torrent", info |-> [hash |-> h]] : h \in Hashes} \cup
              {[type |-> "RemoveTorrent", id |-> HashId[h]] : h \in Hashes})

InitRestart == InitWith({OneTorrentDir}, {None}, {FALSE}, {0})

DispatchRestart == Dispatch(RestartEvents)

NextRestart == Lifecycle \/ DispatchRestart \/ RestartOne

SpecRestart == InitRestart /\ [][NextRestart]_vars

\* refreshes of an idle link: either direction moved a byte or none, both
\* rates are 0
Transfers ==
    {Some([ulr |-> 0, ul |-> b, dlr |-> 0, dl |-> d]) : b, d \in {0, 1}}

ReloadEvents ==
    {[kind |-> "Timer", t |-> ThrottlerId, update |-> Transfers], [kind |-> "RPC", ok |-> FALSE]}

\* a session directory that holds the syn_data file and no resume file
SynDataDir == {File(SynDataName, TRUE, None)}

RestartReload == Restart(SynDataDir, 0)

\* the runs in which the counters grow and the daemon is shut down and
\* started again: refresh ticks and RPC(Err), with no syn_data file at the
\* first start or the one an earlier run left
InitReload ==
    InitWith({SynDataDir}, {None, Some([id |-> OldId, ul |-> 1, dl |-> 2])}, {FALSE}, {0})

DispatchReload == Dispatch(ReloadEvents)

NextReload == deserialize \/ DeserializeEntry \/ StartRunning \/ Poll \/ CheckShutdown \/ DispatchReload
              \/ serialize \/ drop \/ RestartReload

SpecReload == InitReload /\ [][NextReload]_vars

\* a rate a usize holds on a 64-bit target and a u32 does not
WideRate == U32_MAX + 1

\* the runs in which commands arrive: every rpc::Message, and RPC(Err); the
\* configured caps are 0 or beyond the range of u32
InitRpc == InitWith({OneTorrentDir}, {None}, {FALSE}, {0, WideRate})

DispatchRpc == Dispatch(RpcEvents(TableMessages \cup ServerMessages))

NextRpc == Lifecycle \/ DispatchRpc

SpecRpc == InitRpc /\ [][NextRpc]_vars

-----------------------------------------------------------------------------
(* Properties *)

\* the step hands one event of the batch to handle_event
Handled == pc = "Dispatch" /\ pending # <<>> /\ pending' # pending

\* the step handles a received RPC command of one of the given types
HandledRpc(types) ==
    Handled /\ ev'.kind = "RPC" /\ ev'.ok /\ ev'.msg.type \in types

HashesOf(t) == {t[i].hash : i \in DOMAIN t}
TidsWith(t, h) == {i \in DOMAIN t : t[i].hash = h}

\* C1: no two torrents of the primary table carry the same ContentHash
C1_UniqueHash ==
    \A a, b \in DOMAIN torrents : torrents[a].hash = torrents[b].hash => a = b

\* C2: every key H of hash_idx resolves to a key of torrents, and the torrent
\* stored there has hash H
C2_IndexResolves ==
    \A h \in DOMAIN hash_idx :
        /\ hash_idx[h] \in DOMAIN torrents
        /\ torrents[hash_idx[h]].hash = h

\* a hash is indexed again after its torrent was removed and added anew
C2_Witness ==
    /\ DOMAIN hash_idx # {}
    /\ removed # {}
    /\ ev.kind = "RPC" /\ ev.ok /\ ev.msg.type = "Torrent"
    /\ eff # NoEff

\* C3: an AddTorrent whose hash is already indexed changes none of torrents,
\* hash_idx, peers, tid_cnt and makes no call (no torrent is constructed); one
\* whose hash is not indexed adds one torrent and advances tid_cnt by one
C3_DuplicateAdd ==
    [][HandledRpc({"Torrent"}) =>
         IF ContainsKey(hash_idx, ev'.msg.info.hash)
         THEN UNCHANGED tables /\ eff' = NoEff
         ELSE /\ tid_cnt' = tid_cnt + 1
              /\ Cardinality(DOMAIN torrents') = Cardinality(DOMAIN torrents) + 1]_vars

\* a second AddTorrent of the only hash of the table has just been ignored
C3_Witness ==
    /\ ev.kind = "RPC" /\ ev.ok /\ ev.msg.type = "Torrent"
    /\ eff = NoEff
    /\ pc = "Dispatch"
    /\ tid_cnt = 1
    /\ HashesOf(torrents) = {ev.msg.info.hash}

\* C4: tid_cnt never decreases, a torrent inserted gets an id greater than
\* every id issued before it, and the keys of torrents are the ids issued so
\* far (0 .. tid_cnt - 1) that RemoveTorrent has not removed
C4_IdsNeverReused ==
    /\ [](/\ DOMAIN torrents \cup removed = 0..(tid_cnt - 1)
          /\ DOMAIN torrents \cap removed = {})
    /\ [][/\ tid_cnt' >= tid_cnt
          /\ \A t \in DOMAIN torrents' \ DOMAIN torrents :
                /\ t < tid_cnt'
                /\ \A u \in DOMAIN torrents \cup removed : t > u]_vars

\* a hash was removed and added again: the new torrent has a larger id
C4_Witness ==
    /\ ev.kind = "RPC" /\ ev.ok /\ ev.msg.type = "Torrent"
    /\ eff # NoEff
    /\ \E r \in removed : tid_cnt - 1 > r
    /\ Cardinality(DOMAIN torrents) = 1

\* C5: RemoveTorrent{hex(H)} with H indexed leaves H out of hash_idx and no
\* torrent with hash H in torrents, and calls delete once, on the torrent removed
C5_RemoveClearsHash ==
    [][\A h \in DOMAIN hash_idx :
         (HandledRpc({"RemoveTorrent"}) /\ ev'.msg.id = hash_to_id(h)) =>
            /\ h \notin DOMAIN hash_idx'
            /\ TidsWith(torrents', h) = {}
            /\ eff'.ops = <<<<"delete", hash_idx[h]>>>>]_vars

\* C6: every entry of peers points to a key of torrents
C6_PeersPointToTorrents ==
    \A p \in DOMAIN peers : peers[p] \in DOMAIN torrents

\* the peer event reports a failure: the event is an error, or the torrent
\* answered it with one
ReportsFailure(e, f) ==
    ~e.ok \/ \E i \in DOMAIN f.ops : f.ops[i][1] = "peer_ev" /\ f.ops[i][3] = "Err"

\* C7: a Peer event for a key P of peers that reports failure removes P and
\* asks the owning torrent to republish its peers; one that does not leaves
\* peers unchanged
C7_FailingPeerRemoved ==
    [][(Handled /\ ev'.kind = "Peer" /\ ev'.peer \in DOMAIN peers) =>
         IF ReportsFailure(ev', eff')
         THEN /\ peers' = Remove(peers, ev'.peer)
              /\ \E i \in DOMAIN eff'.ops :
                    eff'.ops[i] = <<"update_rpc_peers", peers[ev'.peer]>>
         ELSE UNCHANGED peers]_vars

\* the ids a hash-keyed command carries
CommandIds(m) ==
    CASE m.type \in HashKeyed -> <<m.id>>
      [] m.type \in HashKeyedBy -> <<m.torrent_id>>
      [] m.type = "Validate" -> m.ids

\* the id is not 40 hex characters, or it decodes to a hash hash_idx lacks
Misses(id) ==
    \/ ~IsSome(IdHash[id])
    \/ ~ContainsKey(hash_idx, Unwrap(IdHash[id]))

\* C8: a hash-keyed command none of whose ids resolves changes neither the
\* tables nor the throttler, makes no call on a torrent, sends nothing over
\* RPC and does not end the loop
C8_MissIsNoOp ==
    [][(/\ HandledRpc(HashKeyed \cup HashKeyedBy \cup {"Validate"})
        /\ \A i \in DOMAIN CommandIds(ev'.msg) : Misses(CommandIds(ev'.msg)[i])) =>
         /\ UNCHANGED <<tables, throttler, removed>>
         /\ eff' = NoEff
         /\ pc' = "Dispatch"]_vars

\* a RemoveTorrent with an id that is not hexadecimal was handled while the
\* table held a torrent
C8_Witness ==
    /\ ev.kind = "RPC" /\ ev.ok /\ ev.msg.type = "RemoveTorrent"
    /\ ev.msg.id = NonHexId
    /\ DOMAIN hash_idx # {}
    /\ pc = "Dispatch"

\* C9: once loaded, ul >= session_ul and dl >= session_dl
C9_TotalsCoverSession ==
    pc # "Loading" => data.ul >= data.session_ul /\ data.dl >= data.session_dl

\* the rates of a ServerTransfer update
RatesOf(m) == <<m.rate_up, m.rate_down>>

\* C10: a job-timer tick sends one ServerTransfer update, with the pending
\* rates, if a pair is pending and differs from last_tx_rates, and none
\* otherwise; it leaves the pending slot empty; and an update sent never
\* repeats the rates of the update sent before it
C10_RatePublication ==
    [][(Handled /\ ev'.kind = "Timer" /\ ev'.t = JobTimer) =>
         /\ tx_rates' = None
         /\ IF IsSome(tx_rates) /\ Unwrap(tx_rates) # last_tx_rates
            THEN /\ Len(eff'.rpc) = 1
                 /\ eff'.rpc[1].type = "ServerTransfer"
                 /\ RatesOf(eff'.rpc[1]) = Unwrap(tx_rates)
                 /\ IsSome(published) => RatesOf(eff'.rpc[1]) # Unwrap(published)
            ELSE eff'.rpc = <<>>]_vars

\* a tick has published rates that differ from those published before, which
\* were not the initial <<0, 0>>
C10_Witness ==
    /\ ev.kind = "Timer" /\ ev.t = JobTimer
    /\ Len(eff.rpc) = 1
    /\ last_tx_rates = <<0, 0>>
    /\ published = Some(<<0, 0>>)
    /\ tx_rates = None

\* C11: UpdateServer leaves the rate of a direction whose field is None as it
\* was, sets the rate of a direction whose field is present to the field, and
\* sends one Throttle update carrying the two rates the throttler then has
C11_UpdateServer ==
    [][HandledRpc({"UpdateServer"}) =>
         LET m == ev'.msg IN
         /\ throttler'.ul_rate = IF IsSome(m.throttle_up) THEN Unwrap(m.throttle_up)
                                 ELSE throttler.ul_rate
         /\ throttler'.dl_rate = IF IsSome(m.throttle_down) THEN Unwrap(m.throttle_down)
                                 ELSE throttler.dl_rate
         /\ Len(eff'.rpc) = 1
         /\ eff'.rpc[1].type = "Throttle"
         /\ eff'.rpc[1].throttle_up = throttler'.ul_rate
         /\ eff'.rpc[1].throttle_down = throttler'.dl_rate]_vars

\* the variants of rpc::Message
Commands == {"UpdateTorrent", "Torrent", "UpdateFile", "UpdateServer", "RemoveTorrent",
             "Pause", "Resume", "Validate", "RemovePeer", "RemoveTracker"}

\* run() is in its loop, polling or dispatching
Running == pc \in {"Poll", "Dispatch"}

\* C20: handling a received RPC command never ends the loop, whatever the
\* command; the loop is left only by an RPC(Err) event or by the shutdown flag
\* found set at the check between batches
C20_CommandsNeverTerminate ==
    /\ [][HandledRpc(Commands) => pc' = "Dispatch"]_vars
    /\ [][(Running /\ ~Running') =>
            \/ Handled /\ ev'.kind = "RPC" /\ ~ev'.ok
            \/ shutdown /\ pending = <<>> /\ ev'.kind = "check_shutdown"]_vars

\* a RemoveTorrent has removed a torrent and the loop goes on
C20_Witness ==
    /\ ev.kind = "RPC" /\ ev.ok /\ ev.msg.type = "RemoveTorrent"
    /\ eff # NoEff
    /\ pc = "Dispatch"
    /\ ~shutdown

-----------------------------------------------------------------------------
(* Properties of the loop, checked where batches are drawn by the poll *)

\* the step hands the RPC(Err) event to handle_event
HandledRpcErr == Handled /\ ev'.kind = "RPC" /\ ~ev'.ok

\* run() has returned, or the Control is gone
Left == pc \in {"Returned", "Terminated"}

\* the parts of C12 that do not depend on what the batch holds: events are
\* handled in the order of the batch, the flag ends the loop only when it is
\* read with the batch drained and is then honoured at once, and a flag that
\* is set leads to the return of run()
C12_FlagBetweenBatches ==
    /\ [][Handled => ev' = Head(pending) /\ pending' = Tail(pending)]_vars
    /\ [][(pc = "Dispatch" /\ pc' # pc /\ ev'.kind = "check_shutdown") =>
            /\ pending = <<>>
            /\ pc' = IF shutdown THEN "Draining" ELSE "Poll"]_vars
    /\ [][(pc = "Draining" /\ pc' # pc) => pc' = "Returned" /\ ev'.kind = "serialize"]_vars
    /\ (shutdown ~> Left)

\* C12 as stated: the flag is read only between batches; with the flag set
\* while a batch is dispatched, serialization starts only when every event of
\* the batch has been dispatched, in order; and a set flag leads to the
\* serialization and the return of run() with no poll after the check
C12_BatchCompleted ==
    /\ C12_FlagBetweenBatches
    /\ [][(shutdown /\ Running /\ pc' = "Draining") => pending' = <<>>]_vars

\* C12 amended: with the flag set, serialization starts before the batch is
\* drained only when one of its events returned the terminal signal
C12_BatchCompletedUnlessTerminal ==
    /\ C12_FlagBetweenBatches
    /\ [][(shutdown /\ Running /\ pc' = "Draining") =>
            pending' = <<>> \/ HandledRpcErr]_vars

\* the flag is set, an error event of the batch has been handled and another
\* event of the batch is still to come
C12_Witness ==
    /\ shutdown
    /\ pc = "Dispatch"
    /\ pending # <<>>
    /\ ev.kind = "Tracker"

\* what the claims call the core state: the tables, the throttler, the
\* counters and the rate slots
core == <<tables, throttler, data, tx_rates, last_tx_rates>>

\* the error events that are logged and survived
LoggedOnly(e) ==
    \/ e.kind \in {"Tracker", "Disk", "Listener"} /\ ~e.ok
    \/ e.kind = "Timer" /\ e.t \notin {ThrottlerId, ThrottlerFid, JobTimer}

\* C13: RPC(Err) changes no table and no other core state, makes no call and
\* ends the loop, after which run() serializes and returns; Tracker(Err),
\* Disk(Err), Listener(Err) and a timer with an unknown id change no core
\* state, make no call and leave the loop running
C13_ErrorDispositions ==
    /\ [][HandledRpcErr => UNCHANGED core /\ eff' = NoEff /\ pc' = "Draining"]_vars
    /\ [][(pc = "Draining" /\ pc' # pc) => pc' = "Returned" /\ ev'.kind = "serialize"]_vars
    /\ (pc = "Draining" ~> pc = "Returned")
    /\ [][(Handled /\ LoggedOnly(ev')) =>
            UNCHANGED core /\ eff' = NoEff /\ pc' = "Dispatch"]_vars

\* run() has serialized and returned after an RPC(Err), the flag never set,
\* and the table it served held a torrent
C13_Witness ==
    /\ pc = "Returned"
    /\ ~shutdown
    /\ ev.kind = "serialize"
    /\ DOMAIN torrents # {}

\* the phases of the lifecycle, in order; Running is Poll and Dispatch
Phase ==
    [Loading |-> 0, LoadingDir |-> 0, Poll |-> 1, Dispatch |-> 1,
     Draining |-> 2, Returned |-> 3, Terminated |-> 3, Panicked |-> 4]

\* C14: the phases follow one another, none is skipped or entered again;
\* deserialize is the one step out of Loading and events are dispatched only
\* after it; every way out of Running leads to Draining, whose one step is
\* serialize, and serialize happens nowhere else; from Draining on no batch is
\* polled and no event dispatched
C14_LinearLifecycle ==
    /\ [][Phase[pc'] \in {Phase[pc], Phase[pc] + 1}]_vars
    /\ [][(pc = "Loading" /\ pc' # pc) =>
            pc' = "LoadingDir" /\ ev'.kind = "deserialize"]_vars
    /\ [][(ev'.kind = "deserialize" /\ ev' # ev) => pc = "Loading"]_vars
    /\ [][Handled => Phase[pc] = 1 /\ ev.kind # "new"]_vars
    /\ [][(Running /\ ~Running') => pc' = "Draining"]_vars
    /\ [][(pc = "Draining" /\ pc' # pc) => pc' = "Returned" /\ ev'.kind = "serialize"]_vars
    /\ [][(ev'.kind = "serialize" /\ ev' # ev) => pc = "Draining"]_vars
    /\ [][Phase[pc] >= 2 => pending' = pending /\ ~Running' /\ UNCHANGED core]_vars
    /\ (pc = "Draining" ~> pc = "Returned")

\* the whole lifecycle has been walked on the flag's path
C14_Witness ==
    /\ pc = "Terminated"
    /\ shutdown
    /\ pending = <<>>
    /\ IsSome(prev)

\* the messages Drop sends, in its order
ShutdownMessages ==
    <<"msg_disk(shutdown)", "msg_rpc(Shutdown)", "msg_trk(Shutdown)", "msg_listener(Shutdown)">>

\* the step sends a shutdown message to a subsystem
SendsShutdown ==
    /\ eff' # eff
    /\ \E i \in DOMAIN eff'.cio : \E j \in DOMAIN ShutdownMessages :
          eff'.cio[i] = ShutdownMessages[j]

\* C15: serialize writes syn_data first and then asks each torrent of the
\* table, once, to serialize; shutdown messages are sent only by the step after
\* run() has returned from serialize, one to each of disk, RPC, tracker and
\* listener; and none is sent while the loop runs
C15_PersistThenShutdown ==
    /\ [][(pc = "Draining" /\ pc' # pc) =>
            /\ Len(eff'.ops) = 1 + Cardinality(DOMAIN torrents)
            /\ eff'.ops[1] = <<"File::create", "syn_data">>
            /\ \A t \in DOMAIN torrents :
                  \E i \in 2..Len(eff'.ops) : eff'.ops[i] = <<"serialize", t>>
            /\ eff'.cio = <<>> /\ eff'.rpc = <<>>]_vars
    /\ [][SendsShutdown =>
            /\ pc = "Returned" /\ pc' = "Terminated"
            /\ ev.kind = "serialize"
            /\ IsSome(prev)
            /\ eff'.cio = ShutdownMessages]_vars
    /\ [][(pc = "Returned" /\ pc' # pc) => SendsShutdown]_vars
    /\ [][pc = "Terminated" => UNCHANGED eff]_vars
    /\ [](Running => \A i \in DOMAIN eff.rpc : eff.rpc[i].type # "Shutdown")

\* the four messages have been sent after an RPC(Err) ended a run that had
\* two torrents to serialize
C15_Witness ==
    /\ pc = "Terminated"
    /\ ~shutdown
    /\ eff.cio = ShutdownMessages
    /\ Cardinality(DOMAIN torrents) = 2

\* C19: an event for which handle_event returns the terminal signal sends
\* run() straight to serialize, and the events that followed it in the batch
\* are never dispatched
C19_TerminalCutsBatch ==
    /\ [][HandledRpcErr => pc' = "Draining" /\ pending' = Tail(pending)]_vars
    /\ [][Phase[pc] >= 2 => pending' = pending /\ ~Handled]_vars
    /\ [][(pc = "Draining" /\ pc' # pc) => pc' = "Returned" /\ ev'.kind = "serialize"]_vars

\* run() has returned after an RPC(Err) that was not the last event of its batch
C19_Witness ==
    /\ pc = "Returned"
    /\ pending # <<>>
    /\ ~shutdown

-----------------------------------------------------------------------------
(* Properties of startup recovery *)

\* the step is one turn of the loop over the session directory
Visited == pc = "LoadingDir" /\ dir' # dir

\* the entry is a file with a name of 40 characters that is read and decoded
Valid(entry) ==
    /\ ~entry.err
    /\ Len(entry.name) = NAME_LEN
    /\ entry.readable
    /\ IsSome(entry.parsed)

\* the entry is a file with a name of 40 characters that cannot be read, or
\* is read and cannot be decoded
Unusable(entry) ==
    /\ ~entry.err
    /\ Len(entry.name) = NAME_LEN
    /\ ~(entry.readable /\ IsSome(entry.parsed))

\* C18: an entry whose name is not 40 characters long changes no state and
\* causes no call; a file that cannot be read or decoded changes none of
\* torrents, hash_idx, tid_cnt; either way the loop goes on with the entries
\* left, each valid file among them is loaded under the next id and indexed,
\* and the loop, which can always visit an entry that is left, ends only when
\* none is
C18_TolerantRecovery ==
    /\ [][Visited =>
            LET entry == ev'.entry IN
            /\ dir' = dir \ {entry}
            /\ pc' = "LoadingDir"
            /\ (~entry.err /\ Len(entry.name) # NAME_LEN) =>
                  UNCHANGED <<core, session, pid_cnt>> /\ eff' = NoEff
            /\ (entry.err \/ Unusable(entry)) => UNCHANGED tables
            /\ Valid(entry) =>
                  /\ tid_cnt' = tid_cnt + 1
                  /\ torrents' = Insert(torrents, tid_cnt, [hash |-> Unwrap(entry.parsed)])
                  /\ Get(hash_idx', Unwrap(entry.parsed)) = Some(tid_cnt)]_vars
    /\ [][(pc = "LoadingDir" /\ pc' # pc) => dir = {} /\ pc' = "Poll"]_vars
    /\ [](pc = "LoadingDir" /\ dir # {} => ENABLED DeserializeEntry)

\* a file of 40 characters that does not decode has just been skipped, no id
\* was taken for it, and a valid file is still to be visited
C18_Witness ==
    /\ pc = "LoadingDir"
    /\ ev.kind = "deserialize_torrent"
    /\ Unusable(ev.entry) /\ ev.entry.readable
    /\ tid_cnt = 0
    /\ \E entry \in dir : ~entry.err /\ Valid(entry)

-----------------------------------------------------------------------------
(* Properties across a restart *)

\* the step is deserialize reading syn_data
Reads == pc = "Loading" /\ pc' # pc

\* C16: a ServerData that serialize wrote is read back by the next process
\* with the same id, ul and dl and with session_ul = session_dl = 0; whenever
\* syn_data decodes, the id and counters in it are taken and no id is drawn;
\* a fresh id with zero counters is drawn exactly when it does not; and the
\* id then stays for the life of the process
C16_ServerDataRoundTrip ==
    /\ [][(Reads /\ IsSome(prev) /\ Unwrap(prev).written) =>
            data' = [id |-> Unwrap(prev).data.id,
                     ul |-> Unwrap(prev).data.ul, dl |-> Unwrap(prev).data.dl,
                     session_ul |-> 0, session_dl |-> 0]]_vars
    /\ [][(Reads /\ IsSome(syn_data)) =>
            /\ Persisted(data') = Unwrap(syn_data)
            /\ data'.id \notin FreshIds(runs)
            /\ data'.session_ul = 0 /\ data'.session_dl = 0]_vars
    /\ [][(Reads /\ ~IsSome(syn_data)) =>
            /\ data'.id \in FreshIds(runs)
            /\ IsSome(prev) => data'.id # Unwrap(prev).data.id
            /\ data'.ul = 0 /\ data'.dl = 0
            /\ data'.session_ul = 0 /\ data'.session_dl = 0]_vars
    /\ [][pc \notin {"Loading", "Terminated"} => data'.id = data.id]_vars

\* the second process has read back the id the first one drew, together with
\* counters that the first one had raised to different values
C16_Witness ==
    /\ runs = 1
    /\ pc = "LoadingDir"
    /\ ev.kind = "deserialize"
    /\ data.id \in FreshIds(0)
    /\ data.ul = 1 /\ data.dl = 2
    /\ Unwrap(prev).data = [id |-> data.id, ul |-> 1, dl |-> 2]

\* C17: with a session directory that both processes could read, a process
\* started on the directory an earlier one left announces itself with a table
\* that holds exactly the hashes the earlier one held when it serialized, one
\* torrent for each, all of them indexed
C17_ResumeAcrossRestart ==
    (/\ runs > 0 /\ pc = "Poll" /\ ev.kind = "send_rpc_info"
     /\ ~deserialize_err /\ ~Unwrap(prev).deserialize_err) =>
        /\ HashesOf(torrents) = Unwrap(prev).hashes
        /\ DOMAIN hash_idx = Unwrap(prev).hashes
        /\ Cardinality(DOMAIN torrents) = Cardinality(Unwrap(prev).hashes)

\* the second process has recovered two torrents, one of which the first
\* process had added after removing the torrent it started with
C17_Witness ==
    /\ runs = 1
    /\ pc = "Poll"
    /\ ev.kind = "send_rpc_info"
    /\ ~deserialize_err
    /\ ~Unwrap(prev).deserialize_err
    /\ HashesOf(torrents) = Hashes
    /\ session # EmptyMap

====
